---- MODULE Spec2Model ----
(***************************************************************************)
(* The interactive ("physics") pendulum scene of src/main.js as a state    *)
(* machine: the Pendulum objects, the pointer handlers, the frame loop and *)
(* the host's timer queue.  All callbacks run to completion on one thread, *)
(* so every handler is one atomic action.                                  *)
(*                                                                         *)
(* Numbers.  Times are integer milliseconds.  Angles are integer           *)
(* milliradians and velocities integer milliradians per second; every      *)
(* floating-point product or quotient of the source is the same product or *)
(* quotient truncated toward zero (Trunc).  Math.sin is its cubic Taylor   *)
(* polynomial in the same fixed point.                                     *)
(***************************************************************************)
EXTENDS Integers

\* ---------------------------------------------------------------- bounds
\* Number of pendulums built by main() (12 in the source, bounded here).
NumPendulums == 3
\* window.innerWidth / 2, in pixels: an input of the host.
HalfWidth == 2
\* Horizon of the clock, in ms.
MaxTime == 330
\* Number of setTimeout batches (one batch = one callback per pendulum).
MaxBatches == 3

\* ------------------------------------------------------ program constants
\* Math.PI / 4 in milliradians.
Pi4 == 785
\* Delay step of the startSwinging callbacks (index * 100).
StartDelay == 100
\* Delay step of the setAngleFromMouse callbacks (index * 30).
DragDelay == 30
\* JavaScript null (startTime, lastFrameTime before the first frame).
Null == -1

InnerWidth == 2 * HalfWidth
Indices == 0 .. (NumPendulums - 1)
MaxTimers == MaxBatches * NumPendulums
\* Pointer positions the host delivers (clientX, clientY).
Xs == {0, HalfWidth, InnerWidth}
Ys == {0, 1}
\* Amounts by which the clock advances between callbacks.
TimeSteps == {StartDelay}

VARIABLES
    now,            \* performance.now() / the frame timestamp, ms
    isDragging,     \* module variable isDragging
    lastMouseX,     \* module variable lastMouseX
    lastMouseY,     \* module variable lastMouseY
    startTime,      \* main()'s startTime (Null before the first frame)
    lastFrameTime,  \* main()'s lastFrameTime (Null before the first frame)
    pendulums,      \* main()'s pendulums array: index -> Pendulum object
    timers,         \* the host's pending setTimeout callbacks
    timerCount      \* number of setTimeout calls made so far (last timer id)

vars == <<now, isDragging, lastMouseX, lastMouseY, startTime, lastFrameTime,
          pendulums, timers, timerCount>>

\* ------------------------------------------------------------- arithmetic
\* Quotient truncated toward zero.
Trunc(n, d) == IF n >= 0 THEN n \div d ELSE -((-n) \div d)

\* ToNumber of a value that may be null: null - x and x - null use 0.
Num(v) == IF v = Null THEN 0 ELSE v

\* 1000 * Math.sin(a / 1000): a - a^3/6 in milliradians.
Sin(a) == a - Trunc(Trunc(a * a, 1000) * a, 6000)

\* ------------------------------------------------------------ class Pendulum
\* A mesh's rotation.z is 0 until the pendulum writes it.
NewPendulum ==
    [isSwinging |-> FALSE, angle |-> 0, velocity |-> 0, lastUpdateTime |-> 0,
     stringRotZ |-> 0, ballRotZ |-> 0]

UpdatePendulumPosition(p) ==
    [p EXCEPT !.stringRotZ = p.angle, !.ballRotZ = p.angle]

\* Variant of MouseAngle: the offset divided by innerWidth, not innerWidth/2.
MouseAngleFullWidth(x, y) == Trunc((2 * x - InnerWidth) * Pi4, 2 * InnerWidth)

\* The angle setAngleFromMouse computes:
\* ((x - innerWidth/2) / (innerWidth/2)) * PI/4.
MouseAngle(x, y) == Trunc((2 * x - InnerWidth) * Pi4, InnerWidth)

SetAngleFromMouse(p, x, y) ==
    UpdatePendulumPosition([p EXCEPT !.angle = MouseAngle(x, y)])

\* The integration step of update(): deltaTime in ms.
Integrate(p, totalTime) ==
    LET deltaTime == totalTime - p.lastUpdateTime
        acceleration == -Trunc(981 * Sin(p.angle), 800)
        v1 == p.velocity + Trunc(acceleration * deltaTime, 1000)
        a1 == p.angle + Trunc(v1 * deltaTime, 1000)
    IN  [p EXCEPT !.lastUpdateTime = totalTime,
                  !.velocity = Trunc(v1 * 99995, 100000),
                  !.angle = a1]

\* Variant of Update: the transforms are not rewritten after the step.
UpdateWithoutRedraw(p, totalTime) ==
    IF p.isSwinging THEN Integrate(p, totalTime) ELSE p

Update(p, totalTime) ==
    UpdatePendulumPosition(IF p.isSwinging THEN Integrate(p, totalTime) ELSE p)

\* Variant of StartSwinging: the velocity is not reset.
StartSwingingKeepVelocity(p, totalTime) ==
    [p EXCEPT !.isSwinging = TRUE, !.lastUpdateTime = totalTime]

StartSwinging(p, totalTime) ==
    [p EXCEPT !.isSwinging = TRUE, !.lastUpdateTime = totalTime, !.velocity = 0]

StopSwinging(p) == [p EXCEPT !.isSwinging = FALSE]

\* ------------------------------------------------------------ timer queue
\* The callbacks one forEach schedules: callback `kind` for every pendulum,
\* pendulum index after index * step ms.
\* Variant of Scheduled: the delays run down with the index.
ScheduledDescending(kind, step) ==
    {[id |-> timerCount + 1 + i, kind |-> kind, index |-> i,
      due |-> now + (NumPendulums - 1 - i) * step] : i \in Indices}

Scheduled(kind, step) ==
    {[id |-> timerCount + 1 + i, kind |-> kind, index |-> i,
      due |-> now + i * step] : i \in Indices}

\* Room for one more batch, all of it due within the horizon.
CanSchedule(step) ==
    /\ timerCount + NumPendulums <= MaxTimers
    /\ now + (NumPendulums - 1) * step <= MaxTime

\* The callback the host runs next: earliest due time, then earliest set.
IsNextTimer(t) ==
    /\ t \in timers
    /\ \A u \in timers : t.due < u.due \/ (t.due = u.due /\ t.id <= u.id)

\* ----------------------------------------------------------------- state
Init ==
    /\ now = 0
    /\ isDragging = FALSE
    /\ lastMouseX = 0
    /\ lastMouseY = 0
    /\ startTime = Null
    /\ lastFrameTime = Null
    /\ pendulums = [i \in Indices |-> NewPendulum]
    /\ timers = {}
    /\ timerCount = 0

\* --------------------------------------------------------------- handlers
\* Variant of OnMouseDown: a new drag drops the pending startSwinging
\* callbacks.
OnMouseDownCancelling(x, y) ==
    /\ isDragging' = TRUE
    /\ lastMouseX' = x
    /\ lastMouseY' = y
    /\ pendulums' = [i \in Indices |->
                        SetAngleFromMouse(StopSwinging(pendulums[i]), x, y)]
    /\ timers' = {t \in timers : t.kind # "startSwinging"}
    /\ UNCHANGED <<now, startTime, lastFrameTime, timerCount>>

OnMouseDown(x, y) ==
    /\ isDragging' = TRUE
    /\ lastMouseX' = x
    /\ lastMouseY' = y
    /\ pendulums' = [i \in Indices |->
                        SetAngleFromMouse(StopSwinging(pendulums[i]), x, y)]
    /\ UNCHANGED <<now, startTime, lastFrameTime, timers, timerCount>>

OnMouseMove(x, y) ==
    IF isDragging
    THEN /\ lastMouseX' = x
         /\ lastMouseY' = y
         /\ pendulums' = [i \in Indices |-> SetAngleFromMouse(pendulums[i], x, y)]
         /\ UNCHANGED <<now, isDragging, startTime, lastFrameTime, timers,
                        timerCount>>
    ELSE UNCHANGED vars

OnMouseUp ==
    /\ CanSchedule(StartDelay)
    /\ isDragging' = FALSE
    /\ timers' = timers \cup Scheduled("startSwinging", StartDelay)
    /\ timerCount' = timerCount + NumPendulums
    /\ UNCHANGED <<now, lastMouseX, lastMouseY, startTime, lastFrameTime,
                   pendulums>>

\* update(deltaTime, totalTime), called by animationFrame.
UpdateAll(totalTime) ==
    IF isDragging
    THEN /\ CanSchedule(DragDelay)
         /\ timers' = timers \cup Scheduled("setAngleFromMouse", DragDelay)
         /\ timerCount' = timerCount + NumPendulums
         /\ UNCHANGED pendulums
    ELSE /\ pendulums' = [i \in Indices |-> Update(pendulums[i], totalTime)]
         /\ UNCHANGED <<timers, timerCount>>

\* One display frame; successive frames carry increasing timestamps.
AnimationFrame ==
    /\ lastFrameTime = Null \/ now > lastFrameTime
    /\ startTime' = IF startTime = Null THEN now ELSE startTime
    /\ lastFrameTime' = now
    /\ UpdateAll(now - startTime')
    /\ UNCHANGED <<now, isDragging, lastMouseX, lastMouseY>>

\* The body of a deferred callback.
RunCallback(t) ==
    IF t.kind = "startSwinging"
    THEN [pendulums EXCEPT ![t.index] = StartSwinging(@, now - Num(startTime))]
    ELSE [pendulums EXCEPT ![t.index] =
              SetAngleFromMouse(@, lastMouseX, lastMouseY)]

\* The host runs the next due callback, once, and forgets it.
TimerFire ==
    \E t \in timers :
        /\ IsNextTimer(t)
        /\ t.due <= now
        /\ timers' = timers \ {t}
        /\ pendulums' = RunCallback(t)
        /\ UNCHANGED <<now, isDragging, lastMouseX, lastMouseY, startTime,
                       lastFrameTime, timerCount>>

\* Time passes: by a step, or up to the due time of a pending callback.  The
\* host runs a callback in the millisecond it falls due: the clock does not
\* move while a callback is due and does not jump over a due time.
Tick ==
    \E d \in TimeSteps \cup {t.due - now : t \in {u \in timers : u.due > now}} :
        /\ now + d <= MaxTime
        /\ \A t \in timers : now + d <= t.due
        /\ now' = now + d
        /\ UNCHANGED <<isDragging, lastMouseX, lastMouseY, startTime,
                       lastFrameTime, pendulums, timers, timerCount>>

MouseDown == \E x \in Xs, y \in Ys : OnMouseDown(x, y)
MouseMove == \E x \in Xs, y \in Ys : OnMouseMove(x, y)

Next ==
    \/ MouseDown
    \/ MouseMove
    \/ OnMouseUp
    \/ AnimationFrame
    \/ TimerFire
    \/ Tick

Spec == Init /\ [][Next]_vars

\* ------------------------------------------------- the callback queue alone
\* Every interleaving of pointer-down, pointer-move, pointer-up, frames,
\* callbacks and clock steps, with the pointer kept at one position (the
\* queue does not read the position).  The host's event loop runs every due
\* callback and its clock keeps moving: weak fairness of TimerFire and Tick.
DownAtOrigin == OnMouseDown(0, 0)

MoveAtOrigin == OnMouseMove(0, 0)

NextQueue ==
    \/ DownAtOrigin
    \/ MoveAtOrigin
    \/ OnMouseUp
    \/ AnimationFrame
    \/ TimerFire
    \/ Tick

SpecQueue == Init /\ [][NextQueue]_vars /\ WF_vars(TimerFire) /\ WF_vars(Tick)

\* ------------------------------------------------ the end-to-end scenario
\* One pointer-down at x = innerWidth, then one pointer-up, and no other
\* pointer event: frames, callbacks and the clock run as in Next.
E2EDown ==
    /\ ~isDragging
    /\ timerCount = 0
    /\ \E y \in Ys : OnMouseDown(InnerWidth, y)

E2EUp == isDragging /\ OnMouseUp

NextE2E ==
    \/ E2EDown
    \/ E2EUp
    \/ AnimationFrame
    \/ TimerFire
    \/ Tick

SpecE2E == Init /\ [][NextE2E]_vars /\ WF_vars(TimerFire) /\ WF_vars(Tick)

\* ------------------------------------------------------- step predicates
\* This step is an animation frame (lastFrameTime takes a new timestamp).
IsFrame == lastFrameTime' # lastFrameTime

\* This step runs the deferred callback `kind` of pendulum i.
IsCallback(kind, i) ==
    \E t \in timers :
        /\ IsNextTimer(t) /\ t.due <= now
        /\ t.kind = kind /\ t.index = i
        /\ timers' = timers \ {t}

\* This step is a pointer handler that calls setAngleFromMouse on every
\* pendulum.
IsSetAngleAll == MouseDown \/ (isDragging /\ MouseMove)

AllSwinging == \A i \in Indices : pendulums[i].isSwinging

\* ------------------------------------------------------------------ claims

\* The pointer has been released in the end-to-end scenario.
Released == ~isDragging /\ timerCount > 0

\* C1: in the end-to-end scenario (pointer-down at x = innerWidth, then
\* pointer-up, no other pointer event) every pendulum eventually swings; the
\* pointer-up sets pendulum i's start index * 100 ms ahead; a pendulum starts
\* swinging no earlier than that, only after all pendulums of lower index
\* have, and at that moment its velocity is 0 and its angle is +pi/4.
C1_EndToEnd ==
    /\ Released ~> AllSwinging
    /\ [][(isDragging /\ ~isDragging') =>
            \A i \in Indices :
                \E t \in timers' \ timers :
                    /\ t.kind = "startSwinging" /\ t.index = i
                    /\ t.due = now + i * StartDelay]_vars
    /\ [][\A i \in Indices :
            (~pendulums[i].isSwinging /\ pendulums'[i].isSwinging) =>
                /\ \E t \in timers \ timers' :
                      t.kind = "startSwinging" /\ t.index = i /\ t.due <= now
                /\ pendulums'[i].velocity = 0
                /\ pendulums'[i].angle = Pi4
                /\ \A j \in Indices : j < i => pendulums[j].isSwinging]_vars

\* C1's case: all pendulums have been released one after the other; the first
\* has already swung away from +pi/4 when the last starts there at rest.
C1_Witness ==
    /\ Released /\ AllSwinging
    /\ lastMouseX = InnerWidth
    /\ pendulums[0].angle < Pi4
    /\ pendulums[NumPendulums - 1].angle = Pi4
    /\ pendulums[NumPendulums - 1].velocity = 0

\* C2: while isSwinging is true, a pendulum's angle and velocity change only in
\* the integration step of a frame; while it is false, the velocity does not
\* change and the angle changes only outside frames (by setAngleFromMouse).
C2_ModesExclusive ==
    [][\A i \in Indices :
        /\ (pendulums[i].isSwinging /\ pendulums'[i].isSwinging
              /\ (pendulums'[i].angle # pendulums[i].angle
                    \/ pendulums'[i].velocity # pendulums[i].velocity))
           => IsFrame
        /\ (~pendulums[i].isSwinging /\ ~pendulums'[i].isSwinging)
           => /\ pendulums'[i].velocity = pendulums[i].velocity
              /\ pendulums'[i].angle # pendulums[i].angle => ~IsFrame]_vars

\* C3: no integration step uses a deltaTime larger than the time elapsed since
\* the previous animation frame (the claim's bound is this one or a smaller
\* one: the time since the pendulum's own startSwinging when that is later).
C3_NoStaleDelta ==
    [][(IsFrame /\ ~isDragging /\ lastFrameTime # Null) =>
          \A i \in Indices :
              pendulums[i].isSwinging =>
                  pendulums'[i].lastUpdateTime - pendulums[i].lastUpdateTime
                      <= now - lastFrameTime]_vars

\* Callback number k is pending.
Pending(k) == \E t \in timers : t.id = k

\* C4: a deferred callback leaves the queue only by being run (the next due
\* callback, with its effect on its pendulum), whatever pointer events and
\* frames happen meanwhile; a callback that has left never comes back; and
\* every pending callback eventually runs.
C4_FireOnceNeverCancelled ==
    /\ [][\A t \in timers :
            t \notin timers' =>
                /\ IsNextTimer(t) /\ t.due <= now
                /\ pendulums' = RunCallback(t)]_vars
    /\ [][\A t \in timers' : t \notin timers => t.id > timerCount]_vars
    /\ \A k \in 1 .. MaxTimers : Pending(k) ~> ~Pending(k)

\* C4's case: a startSwinging callback of an earlier pointer-up has run after
\* a new drag began, while later callbacks are still pending.
C4_Witness ==
    /\ isDragging
    /\ \E i \in Indices : pendulums[i].isSwinging
    /\ \E t \in timers : t.kind = "startSwinging"

\* C5: during a drag the pendulums lag behind each other: when the pointer
\* moves to a new position, some pendulum of higher index still shows an angle
\* different from pendulum 0's until its delayed re-set runs.
C5_DragLag ==
    [][(isDragging /\ isDragging' /\ lastMouseX' # lastMouseX) =>
          \E i \in Indices \ {0} :
              pendulums'[i].angle # pendulums'[0].angle]_vars

\* What the code does instead of C5: throughout a drag every pendulum shows
\* the angle of the latest pointer position.
DragAnglesEqual ==
    isDragging =>
        \A i \in Indices : pendulums[i].angle = MouseAngle(lastMouseX, lastMouseY)

\* After this step pendulum i shows the angle of the pointer's x: 0 at
\* innerWidth/2, -pi/4 at 0, +pi/4 at innerWidth.
IsMapped(i) ==
    /\ 2 * lastMouseX' = InnerWidth => pendulums'[i].angle = 0
    /\ lastMouseX' = 0 => pendulums'[i].angle = -Pi4
    /\ lastMouseX' = InnerWidth => pendulums'[i].angle = Pi4

\* C6: whatever y is and whatever the mode, setAngleFromMouse leaves the angle
\* 0 for x = innerWidth/2, -pi/4 for x = 0 and +pi/4 for x = innerWidth.
C6_MouseAngle ==
    [][/\ IsSetAngleAll => \A i \in Indices : IsMapped(i)
       /\ \A i \in Indices :
             IsCallback("setAngleFromMouse", i) => IsMapped(i)]_vars

\* C6's case: a swinging pendulum has been set from the far-left pointer
\* position with a nonzero y.
C6_Witness ==
    \E i \in Indices :
        /\ pendulums[i].isSwinging
        /\ isDragging /\ lastMouseX = 0 /\ lastMouseY # 0
        /\ pendulums[i].angle = -Pi4

\* C7: startSwinging on a pendulum at angle 0 leaves it at angle 0 with
\* velocity 0, and every integration step of a swinging pendulum at angle 0
\* and velocity 0 leaves both at 0.
C7_Equilibrium ==
    [][\A i \in Indices :
        /\ (IsCallback("startSwinging", i) /\ pendulums[i].angle = 0)
           => (pendulums'[i].angle = 0 /\ pendulums'[i].velocity = 0)
        /\ (IsFrame /\ pendulums[i].isSwinging
              /\ pendulums[i].angle = 0 /\ pendulums[i].velocity = 0)
           => (pendulums'[i].angle = 0 /\ pendulums'[i].velocity = 0)]_vars

\* C7's case: a pendulum released at the centre has been integrated over a
\* positive time and is still at rest at angle 0.
C7_Witness ==
    \E i \in Indices :
        /\ pendulums[i].isSwinging /\ ~isDragging
        /\ lastMouseX = HalfWidth
        /\ pendulums[i].angle = 0 /\ pendulums[i].velocity = 0
        /\ startTime # Null /\ lastFrameTime = now
        /\ pendulums[i].lastUpdateTime = now - startTime
        /\ \A t \in timers : t.index = i => t.due > now
        /\ \E j \in Indices : pendulums[j].velocity # 0

\* C8: between callbacks the string's and the ball's rotation.z equal the
\* pendulum's angle.
C8_Mirrored ==
    \A i \in Indices :
        /\ pendulums[i].stringRotZ = pendulums[i].angle
        /\ pendulums[i].ballRotZ = pendulums[i].angle

\* C8's case: an integration step has moved a pendulum and the transforms
\* follow it.
C8_Witness ==
    \E i \in Indices :
        /\ pendulums[i].isSwinging /\ pendulums[i].velocity # 0
        /\ pendulums[i].angle \notin {0, Pi4, -Pi4}
        /\ pendulums[i].stringRotZ = pendulums[i].angle

\* C9: while the pointer is held down no pendulum is swinging.
C9_NoSwingWhileDragging ==
    isDragging => \A i \in Indices : ~pendulums[i].isSwinging

\* C10: every integration step uses deltaTime >= 0.
C10_DeltaNonNegative ==
    [][(IsFrame /\ ~isDragging) =>
          \A i \in Indices :
              pendulums[i].isSwinging =>
                  pendulums'[i].lastUpdateTime >= pendulums[i].lastUpdateTime]_vars

====
